---- MODULE Spec2Model ----
(***************************************************************************)
(* mcp-safe-run: the placeholder resolver (placeholder-resolver.ts), the   *)
(* configuration loader (config-loader.ts) and the supervisor (index.ts).  *)
(*                                                                         *)
(* Strings whose characters the code inspects (placeholders, file          *)
(* contents, environment values, arguments) are sequences of one-character *)
(* strings.  Log lines are records: the fixed wording of the line, the     *)
(* names it interpolates and the values it interpolates.                   *)
(***************************************************************************)
EXTENDS Integers, Sequences, FiniteSets, TLC

(***************************************************************************)
(* Bounds of the model                                                     *)
(***************************************************************************)
\* deliveries of SIGINT / SIGTERM to the supervisor in one run
MaxSignals == 2
\* chunks the child writes to its standard output in one run
MaxOut == 2
\* chunks the supervisor reads from its standard input in one run
MaxIn == 1
\* the clock stops advancing here (milliseconds since the spawn)
MaxTime == 1500

(***************************************************************************)
(* Program constants                                                       *)
(***************************************************************************)
\* setTimeout(() => child.kill('SIGKILL'), 1000)
GraceMs == 1000

(***************************************************************************)
(* String helpers (String.prototype.startsWith / substring / split / trim) *)
(***************************************************************************)
\* mutant: the prefix is looked for anywhere in the string
includes(s, p) ==
    \E i \in 1..Len(s) : i + Len(p) - 1 <= Len(s) /\ SubSeq(s, i, i + Len(p) - 1) = p

startsWith(s, p) == Len(s) >= Len(p) /\ SubSeq(s, 1, Len(p)) = p

substring(s, n) == SubSeq(s, n + 1, Len(s))

RECURSIVE splitFrom(_, _, _)
splitFrom(s, sep, cur) ==
    IF s = <<>> THEN <<cur>>
    ELSE IF Head(s) = sep THEN <<cur>> \o splitFrom(Tail(s), sep, <<>>)
    ELSE splitFrom(Tail(s), sep, Append(cur, Head(s)))

split(s, sep) == splitFrom(s, sep, <<>>)

WhiteSpace == {" ", "\n", "\t", "\r"}

RECURSIVE trimStart(_)
trimStart(s) ==
    IF s # <<>> /\ Head(s) \in WhiteSpace THEN trimStart(Tail(s)) ELSE s

RECURSIVE trimEnd(_)
trimEnd(s) ==
    IF s # <<>> /\ s[Len(s)] \in WhiteSpace
    THEN trimEnd(SubSeq(s, 1, Len(s) - 1)) ELSE s

trim(s) == trimEnd(trimStart(s))

\* untildify: a leading "~" that is the whole path or is followed by "/"
\* is replaced by the home directory
HomeDir == <<"/", "h">>

untildify(p) ==
    IF p # <<>> /\ Head(p) = "~" /\ (Len(p) = 1 \/ p[2] = "/")
    THEN HomeDir \o Tail(p) ELSE p

\* mutant: a spread in which the first object wins
SpreadFirstWins(a, b) ==
    [k \in DOMAIN a \cup DOMAIN b |-> IF k \in DOMAIN a THEN a[k] ELSE b[k]]

\* { ...a, ...b }
Spread(a, b) ==
    [k \in DOMAIN a \cup DOMAIN b |-> IF k \in DOMAIN b THEN b[k] ELSE a[k]]

EmptyMap == <<>>

\* the final environment: the copy { ...process.env } overlaid with the
\* resolved map, { ...resolvedEnv, ...resolved }
compose(inherited, resolved) == Spread(Spread(EmptyMap, inherited), resolved)

Values(m) == {m[k] : k \in DOMAIN m}

(***************************************************************************)
(* The world the capabilities read                                         *)
(***************************************************************************)
kA == <<"A">>
kPORT == <<"P", "O", "R", "T">>
kFOO == <<"F", "O", "O">>

\* a key that Object.prototype defines as an accessor
kProto == <<"__proto__">>

vEnvSecret == <<"s", "1">>
vFileSecret == <<"t", " ", "k">>
vKeySecret == <<"s", "3">>
vPortInherited == <<"8", "0">>

\* process.env of the supervisor: FOO and PORT are set, nothing else is
ProcessEnv == (kFOO :> vEnvSecret) @@ (kPORT :> vPortInherited)

\* process.env is an ordinary object: a name that is no variable is looked up
\* on Object.prototype, where toString (among others) is a function
kToString == <<"t", "o", "S", "t", "r", "i", "n", "g">>

ObjectPrototype == (kToString :> <<"[Function: toString]">>)

\* process.env[varName]: the variable, else the inherited property, else
\* undefined
envGet(env, varName) ==
    IF varName \in DOMAIN env THEN [defined |-> TRUE, value |-> env[varName]]
    ELSE IF varName \in DOMAIN ObjectPrototype
    THEN [defined |-> TRUE, value |-> ObjectPrototype[varName]]
    ELSE [defined |-> FALSE, value |-> <<>>]

pSecret == <<"~", "/", "s">>
pMissing == <<"/", "n", "x">>
pDir == <<"/", "d">>

\* what fs.readFile(path, 'utf-8') settles with: the content, or the errno
\* of the error it rejects with
FileContent(content) == [ok |-> TRUE, content |-> content, code |-> "none"]

ReadError(code) == [ok |-> FALSE, content |-> <<>>, code |-> code]

\* the files of the supervisor's machine: a secret file in the home
\* directory and a directory; no other path exists
FileSystem ==
    (untildify(pSecret) :> FileContent(<<" ">> \o vFileSecret \o <<"\n">>))
        @@ (pDir :> ReadError("EISDIR"))

readFile(files, path) ==
    IF path \in DOMAIN files THEN files[path] ELSE ReadError("ENOENT")

\* the environment and the files a resolution reads
Os == [env |-> ProcessEnv, files |-> FileSystem]

sSvc == <<"s", "v", "c">>
sAcct == <<"a", "c">>
sNobody == <<"n", "o">>

\* keytar.getPassword(service, account): the stored secret, or null
getPassword(service, account) ==
    IF service = sSvc /\ account = sAcct
    THEN [found |-> TRUE, secret |-> vKeySecret]
    ELSE [found |-> FALSE, secret |-> <<>>]

(***************************************************************************)
(* Errors.  A message is the sequence of its fixed fragments; the values   *)
(* interpolated into it are kept in mentions.                              *)
(***************************************************************************)
NoError == [type |-> "none", message |-> <<>>, placeholder |-> <<>>, mentions |-> {}]

ResolutionError(message, placeholder, mentions) ==
    [type |-> "ResolutionError", message |-> message,
     placeholder |-> placeholder, mentions |-> mentions]

Error(message, mentions) ==
    [type |-> "Error", message |-> message, placeholder |-> <<>>, mentions |-> mentions]

Resolved(value, calls) == [ok |-> TRUE, value |-> value, err |-> NoError, calls |-> calls]

Rejected(err, calls) == [ok |-> FALSE, value |-> <<>>, err |-> err, calls |-> calls]

Call(cap, args) == [cap |-> cap, args |-> args]

(***************************************************************************)
(* placeholder-resolver.ts                                                 *)
(***************************************************************************)
cEnv == <<"e", "n", "v", ":">>
cFile == <<"f", "i", "l", "e", ":">>
cKeyring == <<"k", "e", "y", "r", "i", "n", "g", ":">>

\* keytar: "ok" (module loads, store answers), "unloadable" (the import
\* fails), "throws" (getPassword rejects)
KeytarStates == {"ok", "unloadable", "throws"}

getKeytarPassword(keytar, service, account) ==
    IF keytar = "unloadable"
    THEN [threw |-> TRUE, message |-> <<"keytar module failed to load">>,
          found |-> FALSE, secret |-> <<>>]
    ELSE IF keytar = "throws"
    THEN [threw |-> TRUE, message |-> <<"keychain store error">>,
          found |-> FALSE, secret |-> <<>>]
    ELSE [threw |-> FALSE, message |-> <<>>] @@ getPassword(service, account)

\* mutant: no string is taken to be empty
emptyNever(str) == FALSE

\* !varName, !filePath, !parts[i]: the string is empty
empty(str) == str = <<>>

resolveEnv(placeholder, env) ==
    LET varName == substring(placeholder, 4) IN
    IF empty(varName)
    THEN Rejected(ResolutionError(
             <<"Placeholder", "invalid: environment variable name cannot be empty">>,
             placeholder, {placeholder}), <<>>)
    ELSE IF ~envGet(env, varName).defined
    THEN Rejected(ResolutionError(
             <<"Placeholder", "resolution failed:", "environment variable is not set">>,
             placeholder, {placeholder, varName}), <<Call("env", <<varName>>)>>)
    ELSE Resolved(envGet(env, varName).value, <<Call("env", <<varName>>)>>)

\* mutant: every failed read is reported as a file that was not found
readFailureNotFound(placeholder, expandedPath, code) ==
    ResolutionError(<<"Placeholder", "resolution failed:", "file not found at">>,
                    placeholder, {placeholder, expandedPath})

\* the catch block of the read (lines 342-347); code is err.code, which
\* err.message names
readFailure(placeholder, expandedPath, code) ==
    IF code = "ENOENT"
    THEN ResolutionError(<<"Placeholder", "resolution failed:", "file not found at">>,
                         placeholder, {placeholder, expandedPath})
    ELSE ResolutionError(<<"Placeholder", "resolution failed:", "failed to read file",
                           code>>,
                         placeholder, {placeholder, expandedPath})

\* mutant: the content of the file is trimmed at its start only
trimLeading(s) == trimStart(s)

\* content.trim()
trimContent(s) == trim(s)

resolveFile(placeholder, files) ==
    LET filePath == substring(placeholder, 5)
        expandedPath == untildify(filePath)
        r == readFile(files, expandedPath)
        calls == <<Call("file", <<expandedPath>>)>>
    IN
    IF empty(filePath)
    THEN Rejected(ResolutionError(
             <<"Placeholder", "invalid: file path cannot be empty">>,
             placeholder, {placeholder}), <<>>)
    ELSE IF r.ok THEN Resolved(trimContent(r.content), calls)
    ELSE Rejected(readFailure(placeholder, expandedPath, r.code), calls)

\* mutant: two fields or more are accepted, empty or not
malformedLoose(parts) == Len(parts) < 2

\* parts.length !== 2 || !parts[0] || !parts[1]
malformed(parts) == Len(parts) # 2 \/ empty(parts[1]) \/ empty(parts[2])

resolveKeyring(placeholder, keytar) ==
    LET parts == split(substring(placeholder, 8), ":") IN
    IF malformed(parts)
    THEN Rejected(ResolutionError(
             <<"Placeholder", "invalid format: expected keyring:service:account">>,
             placeholder, {placeholder}), <<>>)
    ELSE
      LET service == parts[1]
          account == parts[2]
          got == getKeytarPassword(keytar, service, account)
          calls == <<Call("keyring", <<service, account>>)>>
          baseMsg == <<"Placeholder", "resolution failed:",
                       "could not get secret from keychain">>
          \* thrown inside the try block, so the catch below receives it
          notFound == <<"Placeholder", "resolution failed:",
                        "secret not found in keychain">>
      IN
      IF got.threw
      THEN Rejected(ResolutionError(baseMsg \o got.message, placeholder,
                                    {placeholder, service, account}), calls)
      ELSE IF ~got.found
      THEN Rejected(ResolutionError(baseMsg \o notFound, placeholder,
                                    {placeholder, service, account}), calls)
      ELSE Resolved(got.secret, calls)

\* mutant: a string without a prefix is trimmed like the content of a file
literalTrimmed(placeholder) == Resolved(trim(placeholder), <<>>)

\* no prefix matched: return placeholder (lines 374-375)
literal(placeholder) == Resolved(placeholder, <<>>)

resolveSinglePlaceholder(placeholder, os, keytar) ==
    IF startsWith(placeholder, cEnv) THEN resolveEnv(placeholder, os.env)
    ELSE IF startsWith(placeholder, cFile) THEN resolveFile(placeholder, os.files)
    ELSE IF startsWith(placeholder, cKeyring) THEN resolveKeyring(placeholder, keytar)
    ELSE literal(placeholder)

\* err.message.replace(/^Placeholder .* resolution failed: /, ''): the match
\* is greedy, so it ends at the last "resolution failed:" of the message
RECURSIVE lastIndexOf(_, _, _)
lastIndexOf(msg, frag, i) ==
    IF i = 0 THEN 0
    ELSE IF msg[i] = frag THEN i
    ELSE lastIndexOf(msg, frag, i - 1)

stripResolutionFailed(msg) ==
    LET i == lastIndexOf(msg, "resolution failed:", Len(msg)) IN
    IF msg # <<>> /\ msg[1] = "Placeholder" /\ i > 1
    THEN SubSeq(msg, i + 1, Len(msg)) ELSE msg

\* mutant: the catch block rethrows the error as it caught it
wrapUnitErrorRethrow(err, key) == err

\* the catch block of one resolution unit of resolvePlaceholders
wrapUnitError(err, key) ==
    IF err.type = "ResolutionError"
    THEN ResolutionError(
             <<"Placeholder", "for env var", "resolution failed:">>
                 \o stripResolutionFailed(err.message),
             err.placeholder, err.mentions \cup {err.placeholder, key})
    ELSE Error(<<"Unexpected error resolving placeholder for env var">> \o err.message,
               err.mentions \cup {key})

(***************************************************************************)
(* Console output: console.error and console.warn write to the standard    *)
(* error stream, console.log to the standard output stream.                *)
(***************************************************************************)
Line(stream, text, vals) == [stream |-> stream, text |-> text, vals |-> vals]

consoleError(text, vals) == Line("stderr", text, vals)

consoleWarn(text, vals) == Line("stderr", text, vals)

consoleLog(text, vals) == Line("stdout", text, vals)

\* an option that was not given, and a null result
Undefined == <<"undefined">>

Truthy(s) == s # Undefined /\ s # <<>>

(***************************************************************************)
(* config-loader.ts                                                        *)
(***************************************************************************)
CONFIG_FILE_NAMES == << <<".", "y", "a", "m", "l">>, <<".", "y", "m", "l">> >>

Cwd == <<"/", "w">>

pathJoin(dir, name) == dir \o <<"/">> \o name

getUserConfigDir == pathJoin(HomeDir, <<"c">>)

\* mutant: the user directory is searched before the working directory
CandidatesUserFirst ==
    << pathJoin(getUserConfigDir, CONFIG_FILE_NAMES[1]),
       pathJoin(getUserConfigDir, CONFIG_FILE_NAMES[2]),
       pathJoin(Cwd, CONFIG_FILE_NAMES[1]), pathJoin(Cwd, CONFIG_FILE_NAMES[2]) >>

\* the paths findConfigFile probes, in its order: the two names in the
\* working directory, then the two names in the user directory
Candidates ==
    << pathJoin(Cwd, CONFIG_FILE_NAMES[1]), pathJoin(Cwd, CONFIG_FILE_NAMES[2]),
       pathJoin(getUserConfigDir, CONFIG_FILE_NAMES[1]),
       pathJoin(getUserConfigDir, CONFIG_FILE_NAMES[2]) >>

\* the -c path of the runs that give one
pExplicit == <<"~", "/", "m">>

\* documents a configuration file can hold
DocKinds == {"unreadable", "badyaml", "scalar", "noprofiles", "ok"}

\* instruction strings used by the profiles and by --target-env
rEnvSet == cEnv \o kFOO
rEnvUnset == cEnv \o <<"N">>
rFile == cFile \o pSecret
rFileMissing == cFile \o pMissing
rFileDir == cFile \o pDir
rKeyring == cKeyring \o sSvc \o <<":">> \o sAcct
rKeyringAbsent == cKeyring \o sSvc \o <<":">> \o sNobody
rKeyringBad == cKeyring \o sSvc
rLiteral == <<"9", "0">>

nDev == <<"d", "e", "v">>
nBare == <<"b", "a", "r", "e">>
nBroken == <<"b", "r", "k">>
nGhost == <<"g", "h">>

\* profiles of the "ok" document: dev and brk have a target-env, bare has none
Profiles ==
    (nDev :> [hasTargetEnv |-> TRUE,
              targetEnv |-> (kA :> rKeyring) @@ (kPORT :> rLiteral)])
    @@ (nBroken :> [hasTargetEnv |-> TRUE, targetEnv |-> (kA :> rEnvUnset)])
    @@ (nBare :> [hasTargetEnv |-> FALSE, targetEnv |-> EmptyMap])

\* the file system as the loader sees it: the paths that exist, the outcome
\* of mkdir on the user directory and the document in the file
ConfigWorlds ==
    [present : SUBSET ({Candidates[i] : i \in 1..4} \cup {untildify(pExplicit)}),
     mkdir : {"ok", "EACCES"},
     doc : DocKinds]

Io(op, path) == [op |-> op, path |-> path]

fileExists(filePath, w) == filePath \in w.present

\* the probes of candidates from..to, in order, up to the first that exists
RECURSIVE probeFrom(_, _, _)
probeFrom(i, to, w) ==
    IF i > to THEN [found |-> Undefined, io |-> <<>>]
    ELSE IF fileExists(Candidates[i], w)
    THEN [found |-> Candidates[i], io |-> <<Io("access", Candidates[i])>>]
    ELSE LET rest == probeFrom(i + 1, to, w) IN
         [found |-> rest.found, io |-> <<Io("access", Candidates[i])>> \o rest.io]

findConfigFile(w) ==
    LET local == probeFrom(1, 2, w)
        user == probeFrom(3, 4, w)
        mk == <<Io("mkdir", getUserConfigDir)>>
        warn == IF w.mkdir = "ok" THEN <<>>
                ELSE <<consoleWarn("Warning: Could not create user config dir",
                                   {getUserConfigDir})>>
    IN
    IF local.found # Undefined
    THEN [found |-> local.found, io |-> local.io, out |-> <<>>]
    ELSE [found |-> user.found, io |-> local.io \o mk \o user.io, out |-> warn]

NoConfig == [profiles |-> EmptyMap]

\* mutant: the parsed document is returned without a check
validateNothing(doc) == <<>>

\* the checks on the parsed document (lines 137-142): the message of the
\* error thrown, empty when the document passes
validate(doc) ==
    CASE doc = "scalar" -> <<"Config file is empty or not a valid object.">>
      [] doc = "noprofiles" ->
            <<"Config file must contain a top-level profiles object.">>
      [] OTHER -> <<>>

\* the try block of loadConfig: read, parse, validate
readConfig(finalPath, w) ==
    LET rd == <<Io("readFile", finalPath)>>
        ld == <<Io("yamlLoad", finalPath)>>
        fail(io, why) ==
            [loaded |-> FALSE, config |-> NoConfig, filePath |-> finalPath, io |-> io,
             out |-> <<consoleError("Error loading or parsing config file",
                                    {finalPath, why})>>]
    IN
    CASE w.doc = "unreadable" -> fail(rd, <<"EACCES">>)
      [] w.doc = "badyaml" -> fail(rd \o ld, <<"YAMLException">>)
      [] validate(w.doc) # <<>> -> fail(rd \o ld, validate(w.doc))
      [] OTHER ->
            [loaded |-> TRUE, config |-> [profiles |-> Profiles],
             filePath |-> finalPath, io |-> rd \o ld,
             out |-> <<consoleLog("Loaded configuration from:", {finalPath})>>]

\* return null after the given calls and lines
nothing(io, out) ==
    [loaded |-> FALSE, config |-> NoConfig, filePath |-> Undefined,
     io |-> io, out |-> out]

\* mutant: a -c path that does not exist falls back to the search
specifiedNotFoundSearch(finalPath, w) ==
    LET f == findConfigFile(w)
        r == readConfig(f.found, w)
        io == <<Io("access", finalPath)>> \o f.io
    IN
    IF f.found = Undefined THEN nothing(io, f.out)
    ELSE [r EXCEPT !.io = io \o @, !.out = f.out \o @]

\* the -c path does not exist (lines 116-119)
specifiedNotFound(finalPath, w) ==
    nothing(<<Io("access", finalPath)>>,
            <<consoleError("Error: Specified config file not found:", {finalPath})>>)

loadConfig(configPath, w) ==
    LET prepend(io, out, r) == [r EXCEPT !.io = io \o @, !.out = out \o @]
    IN
    IF Truthy(configPath)
    THEN LET finalPath == untildify(configPath) IN
         IF ~fileExists(finalPath, w)
         THEN specifiedNotFound(finalPath, w)
         ELSE prepend(<<Io("access", finalPath)>>, <<>>, readConfig(finalPath, w))
    ELSE LET f == findConfigFile(w) IN
         IF f.found = Undefined
         THEN nothing(f.io, f.out \o
                  <<consoleWarn("Warning: No config file found in standard locations",
                                {})>>)
         ELSE prepend(f.io, f.out, readConfig(f.found, w))

(***************************************************************************)
(* index.ts: the command line                                              *)
(***************************************************************************)
TargetCommand == <<"n", "p", "x">>

TargetArgs == << <<"-", "y">> >>

\* strings an instruction of --target-env can hold
RawPool ==
    {rEnvSet, rEnvUnset, rFile, rFileMissing, rFileDir,
     rKeyring, rKeyringAbsent, rKeyringBad, rLiteral}

\* the strings used where two instructions are resolved together
PairPool == {rEnvSet, rEnvUnset, rFile, rFileMissing, rLiteral}

\* JSON.parse gives the object an own property for every key of the text,
\* "__proto__" included
InstructionSets ==
    {EmptyMap} \cup [{kA} -> RawPool] \cup [{kA, kPORT} -> PairPool]
        \cup [{kA, kPORT} -> {rKeyring, rKeyringAbsent}]
        \cup {(kA :> rLiteral) @@ (kPORT :> cEnv \o kA),
              (kPORT :> rLiteral) @@ (kA :> cEnv \o kPORT),
              (kToString :> rLiteral) @@ (kPORT :> cEnv \o kToString)}
        \cup [{kProto} -> {rLiteral}] \cup [{kA, kProto} -> {rLiteral, rEnvUnset}]

\* what the command line asks of commander: a run (a target command is
\* given), --help, --version, or no target command at all
CliKinds == {"run", "help", "version", "missing"}

\* options.targetEnv: not given, the empty string, text that is no JSON, JSON
\* that is no object (an array, null, a number), or a JSON object
TargetEnvOptions ==
    {[kind |-> k, object |-> EmptyMap] :
        k \in {"undefined", "empty", "malformed", "nonobject"}}
    \cup {[kind |-> "object", object |-> m] : m \in InstructionSets}

\* what spawn() does: the child starts, spawn throws, or the failure is
\* reported by the child's error event on the next tick
SpawnOutcomes ==
    {[how |-> "started", code |-> "none"],
     [how |-> "throw", code |-> "ENOENT"], [how |-> "throw", code |-> "EINVAL"],
     [how |-> "error", code |-> "ENOENT"], [how |-> "error", code |-> "EACCES"]}

RelayedSignals == {"SIGINT", "SIGTERM"}

ExitCodes == {0, 7}

\* how the exit event reports the end of the child: (code, null) or (null, signal)
ExitedWith(c) == [hasCode |-> TRUE, code |-> c, signal |-> "null"]

KilledBy(sig) == [hasCode |-> FALSE, code |-> 0, signal |-> sig]

NoStatus == [hasCode |-> FALSE, code |-> 0, signal |-> "null"]

VARIABLES
    \* the invocation
    cli, verbose, targetEnvJson, specifiedConfigPath, specifiedProfile, keytar,
    \* the async main function
    pc, instructions, resolvedEnv, exitCode, exitCause,
    \* loadConfig
    configIo,
    \* resolvePlaceholders
    units, resolved, aggregate, capCalls,
    \* the module variables of placeholder-resolver.ts (lines 282-283)
    keytarModule, keytarImportError,
    \* the child
    spawnCall, childState, spawnErrno, childStatus, childSignals, childOut,
    stdinPiped, childStdin,
    \* the supervisor's streams
    stderr, stdout,
    \* signals and timers
    now, timers, sigLog, killLog,
    \* a direct call of an exported function and what it returned
    call, ret

inputVars ==
    <<cli, verbose, targetEnvJson, specifiedConfigPath, specifiedProfile, keytar>>

mainVars == <<pc, instructions, resolvedEnv, exitCode, exitCause>>

resolveVars == <<units, resolved, aggregate, capCalls, keytarModule, keytarImportError>>

childVars ==
    <<spawnCall, childState, spawnErrno, childStatus, childSignals, childOut, stdinPiped,
      childStdin>>

streamVars == <<stderr, stdout>>

signalVars == <<now, timers, sigLog, killLog>>

apiVars == <<call, ret>>

vars ==
    <<inputVars, mainVars, configIo, resolveVars, childVars, streamVars, signalVars,
      apiVars>>

NoSpawn == [called |-> FALSE, command |-> <<>>, args |-> <<>>, env |-> EmptyMap]

NoAggregate == [state |-> "none", err |-> NoError]

UsesKeyring(m) == \E k \in DOMAIN m : startsWith(m[k], cKeyring)

\* no exported function is called directly
NoWorld == [present |-> {}, mkdir |-> "ok", doc |-> "ok"]

NoCall ==
    [fn |-> "none", placeholder |-> <<>>, os |-> Os, keytar |-> "ok",
     inherited |-> EmptyMap, resolved |-> EmptyMap,
     configPath |-> Undefined, world |-> NoWorld]

NoReturn ==
    [done |-> FALSE, single |-> Rejected(NoError, <<>>), composed |-> EmptyMap,
     config |-> nothing(<<>>, <<>>)]

\* the state of the program before program.parse(process.argv) runs
ProgramStart ==
    /\ pc = "parse"
    /\ instructions = EmptyMap
    /\ resolvedEnv = EmptyMap
    /\ exitCode = -1
    /\ exitCause = "none"
    /\ configIo = <<>>
    /\ units = EmptyMap
    /\ resolved = EmptyMap
    /\ aggregate = NoAggregate
    /\ capCalls = <<>>
    /\ keytarModule = "null"
    /\ keytarImportError = "null"
    /\ spawnCall = NoSpawn
    /\ childState = "none"
    /\ spawnErrno = "none"
    /\ childStatus = NoStatus
    /\ childSignals = <<>>
    /\ childOut = 0
    /\ stdinPiped = FALSE
    /\ childStdin = 0
    /\ stderr = <<>>
    /\ stdout = <<>>
    /\ now = 0
    /\ timers = <<>>
    /\ sigLog = <<>>
    /\ killLog = <<>>

\* the command lines: the options and the target command of the run
Init ==
    /\ call = NoCall
    /\ ret = NoReturn
    /\ cli \in CliKinds
    /\ verbose \in BOOLEAN
    /\ targetEnvJson \in TargetEnvOptions
    /\ specifiedConfigPath \in {Undefined, pExplicit}
    /\ specifiedProfile \in {Undefined, nDev, nBroken, nBare, nGhost, kToString}
    /\ keytar \in KeytarStates
    \* inputs the run never reads are fixed
    /\ cli # "run" =>
          /\ ~verbose
          /\ targetEnvJson.kind = "undefined"
          /\ specifiedConfigPath = Undefined
          /\ specifiedProfile = Undefined
    /\ targetEnvJson.kind \notin {"undefined", "empty"} =>
          /\ specifiedConfigPath = Undefined
          /\ specifiedProfile \in {Undefined, nDev}
          /\ UsesKeyring(targetEnvJson.object) \/ keytar = "ok"
    /\ targetEnvJson.kind \in {"undefined", "empty"} =>
          specifiedProfile = nDev \/ keytar = "ok"
    /\ targetEnvJson.kind = "empty" =>
          ~verbose /\ specifiedConfigPath = Undefined
    /\ ProgramStart

(***************************************************************************)
(* Helpers of the actions                                                  *)
(***************************************************************************)
StderrOf(lines) == SelectSeq(lines, LAMBDA l : l.stream = "stderr")

StdoutOf(lines) ==
    LET sel == SelectSeq(lines, LAMBDA l : l.stream = "stdout") IN
    [i \in 1..Len(sel) |->
        [src |-> "supervisor", chunk |-> 0, text |-> sel[i].text, vals |-> sel[i].vals]]

Write(lines) ==
    /\ stderr' = stderr \o StderrOf(lines)
    /\ stdout' = stdout \o StdoutOf(lines)

\* mutant: the call records the code and the supervisor goes on
ExitAndGoOn(code, cause) ==
    /\ pc' = pc
    /\ exitCode' = code
    /\ exitCause' = cause

\* process.exit(code)
Exit(code, cause) ==
    /\ pc' = "exited"
    /\ exitCode' = code
    /\ exitCause' = cause

When(cond, lines) == IF cond THEN lines ELSE <<>>

\* what JSON.stringify(map) puts into a log line: the keys and the values
Stringified(m) == DOMAIN m \cup Values(m)

(***************************************************************************)
(* index.ts: 1. determine the target environment instructions              *)
(***************************************************************************)
\* config.profiles[name] (line 96): the profile of that name; else, the
\* object js-yaml built being an ordinary object, the property of that name
\* of Object.prototype, a function, which is truthy and has no 'target-env';
\* else undefined
profileGet(profiles, name) ==
    IF name \in DOMAIN profiles
    THEN [defined |-> TRUE] @@ profiles[name]
    ELSE IF name \in DOMAIN ObjectPrototype
    THEN [defined |-> TRUE, hasTargetEnv |-> FALSE, targetEnv |-> EmptyMap]
    ELSE [defined |-> FALSE, hasTargetEnv |-> FALSE, targetEnv |-> EmptyMap]

\* lines 84-120, after loadConfig returned r
selectInstructions(r) ==
    LET give(outcome, instr, lines) ==
            [outcome |-> outcome, instructions |-> instr, lines |-> lines]
        available == consoleError("Available profiles:", DOMAIN r.config.profiles)
        profileData == profileGet(r.config.profiles, specifiedProfile)
    IN
    IF r.loaded
    THEN IF ~Truthy(specifiedProfile)
         THEN give("exit", EmptyMap,
                   <<consoleError("Error: Config file loaded, but no profile specified",
                                  {r.filePath}), available>>)
         ELSE IF ~profileData.defined
         THEN give("exit", EmptyMap,
                   <<consoleError("Error: Profile not found in config file",
                                  {specifiedProfile, r.filePath}), available>>)
         ELSE IF profileData.hasTargetEnv
         THEN give("resolve", profileData.targetEnv,
                   <<consoleError("Using target-env from profile",
                                  {specifiedProfile, r.filePath})>>)
         ELSE give("inherit", EmptyMap,
                   <<consoleWarn("Warning: Profile has no 'target-env' defined.",
                                 {specifiedProfile, r.filePath})>>)
    ELSE IF Truthy(specifiedConfigPath) THEN give("exit", EmptyMap, <<>>)
    ELSE IF Truthy(specifiedProfile)
    THEN give("exit", EmptyMap,
              <<consoleError("Error: Profile specified, but no configuration file found",
                             {specifiedProfile})>>)
    ELSE give("inherit", EmptyMap, <<>>)

\* lines 123-128 and the synchronous part of resolvePlaceholders: one
\* pending resolution unit per instruction; Promise.all of no promise is
\* fulfilled at once
BeginResolve(instr, lines) ==
    /\ instructions' = instr
    /\ resolvedEnv' = ProcessEnv
    /\ units' = [k \in DOMAIN instr |-> "pending"]
    /\ resolved' = EmptyMap
    /\ aggregate' = [state |-> IF DOMAIN instr = {} THEN "fulfilled" ELSE "pending",
                     err |-> NoError]
    /\ pc' = "resolving"
    /\ Write(lines \o <<consoleError("Resolving placeholders based on", {})>>)
    /\ UNCHANGED <<exitCode, exitCause, capCalls, keytarModule, keytarImportError,
                   childVars, signalVars>>

(***************************************************************************)
(* index.ts: 3. spawn the target process                                   *)
(***************************************************************************)
\* mutant: the report of the revision that did not tell ENOENT apart
childErrorReportGeneric(code) ==
    consoleError("Error spawning target process:", {<<code>>})

\* the error handler of the child (lines 177-182)
childErrorReport(code) ==
    IF code = "ENOENT"
    THEN consoleError("Target command not found:", {TargetCommand})
    ELSE consoleError("Error spawning target process:", {<<code>>})

\* the catch block around spawn (lines 196-201)
spawnThrowReport(code) ==
    IF code = "ENOENT"
    THEN consoleError("Target command not found:", {TargetCommand})
    ELSE consoleError("Fatal spawn error:", {<<code>>})

\* mutant: the exit code of the child is dropped
exitHandlerCodeDropped(status) == IF status.signal # "null" THEN 1 ELSE 0

\* mutant: the handler exits with 0 whatever the child did
exitHandlerCodeZero(status) == 0

\* mutant: the signal is not looked at
exitHandlerCodeNoSignal(status) == IF status.hasCode THEN status.code ELSE 0

\* the exit handler of the child (lines 167-175): 1 for a signal, else code ?? 0
exitHandlerCode(status) ==
    IF status.signal # "null" THEN 1
    ELSE IF status.hasCode THEN status.code ELSE 0

exitHandlerReport(status) ==
    IF status.signal # "null"
    THEN consoleError("Target process killed by signal", {<<status.signal>>})
    ELSE consoleError("Target process exited with code", {})

\* the lines logged in verbose mode before the spawn (lines 148-151)
finalEnvironmentReport(env) ==
    When(verbose, <<consoleError("Final environment for target process:",
                                 Stringified(env))>>)

\* mutant: spawn without the env option, the child inherits process.env
spawnOptionsNoEnv(env) == [env |-> ProcessEnv]

\* the options of spawn(targetCommand, targetArgs, { env: resolvedEnv })
spawnOptions(env) == [env |-> env]

\* lines 148-203 with the environment env; o is what spawn() does
SpawnTarget(env, lines, o) ==
    LET before == lines \o finalEnvironmentReport(env)
                        \o <<consoleError("Spawning target process...", {})>>
        pid == When(verbose, <<consoleError("Spawned child PID:", {})>>)
    IN
    /\ spawnCall' = [called |-> TRUE, command |-> TargetCommand,
                     args |-> TargetArgs, env |-> spawnOptions(env).env]
    /\ UNCHANGED <<childStatus, childSignals, childOut, childStdin, signalVars>>
    /\ CASE o.how = "throw" ->
              /\ Write(before \o <<spawnThrowReport(o.code)>>)
              /\ Exit(1, "spawn-throw")
              /\ spawnErrno' = o.code
              /\ UNCHANGED <<childState, stdinPiped>>
         [] o.how = "error" ->
              /\ Write(before \o pid)
              /\ pc' = "spawning"
              /\ childState' = "failed"
              /\ spawnErrno' = o.code
              /\ stdinPiped' = TRUE
              /\ UNCHANGED <<exitCode, exitCause>>
         [] OTHER ->
              /\ Write(before \o pid)
              /\ pc' = "running"
              /\ childState' = "running"
              /\ stdinPiped' = TRUE
              /\ UNCHANGED <<exitCode, exitCause, spawnErrno>>

(***************************************************************************)
(* Actions of the main function                                            *)
(***************************************************************************)
\* the code commander passes to process.exit: 0 after the help or the
\* version was printed, 1 for a missing argument
commanderExitCode(kind) == IF kind \in {"help", "version"} THEN 0 ELSE 1

\* lines 10-57: program.parse(process.argv) prints the help or the version
\* on stdout, or the error of a missing <targetCommand> on stderr, and
\* exits; for a run the options are read and the three start-up lines are
\* logged
ParseArgv ==
    /\ pc = "parse"
    /\ IF cli = "run"
       THEN /\ pc' = "start"
            /\ Write(<< consoleError("Starting", {}),
                        consoleError("Target Command =", {TargetCommand}),
                        consoleError("Target Args =",
                                     {TargetArgs[i] : i \in DOMAIN TargetArgs}) >>)
            /\ UNCHANGED <<exitCode, exitCause>>
       ELSE /\ Write(<<IF cli = "missing"
                       THEN consoleError("error: missing required argument", {})
                       ELSE consoleLog(cli, {})>>)
            /\ Exit(commanderExitCode(cli), "commander")
    /\ UNCHANGED <<apiVars, inputVars, instructions, resolvedEnv, configIo, resolveVars,
                   childVars, signalVars>>

\* --target-env was given: lines 65-83, then 123-128
ParseTargetEnv ==
    /\ pc = "start"
    /\ targetEnvJson.kind \notin {"undefined", "empty"}
    /\ LET using == consoleError("Using --target-env JSON:",
                                 Stringified(targetEnvJson.object))
       IN
       CASE targetEnvJson.kind = "malformed" ->
              /\ Write(<<using, consoleError("Invalid JSON for --target-env:", {})>>)
              /\ Exit(1, "target-env")
              /\ UNCHANGED <<instructions, resolvedEnv, resolveVars, childVars, signalVars>>
         [] targetEnvJson.kind = "nonobject" ->
              /\ Write(<<using, consoleError("Error processing --target-env:", {})>>)
              /\ Exit(1, "target-env")
              /\ UNCHANGED <<instructions, resolvedEnv, resolveVars, childVars, signalVars>>
         [] OTHER -> BeginResolve(targetEnvJson.object, <<using>>)
    /\ UNCHANGED <<apiVars, inputVars, configIo>>

\* --target-env was not given: lines 86-120, then 123-128 or, without
\* instructions, 123-203
LoadConfigAndSelect ==
    /\ pc = "start"
    /\ targetEnvJson.kind \in {"undefined", "empty"}
    /\ \E w \in ConfigWorlds :
          LET r == loadConfig(specifiedConfigPath, w)
              sel == selectInstructions(r)
          IN
          /\ configIo' = r.io
          /\ CASE sel.outcome = "exit" ->
                    /\ Write(r.out \o sel.lines)
                    /\ Exit(1, "config")
                    /\ UNCHANGED <<instructions, resolvedEnv, resolveVars,
                                   childVars, signalVars>>
               [] sel.outcome = "resolve" ->
                    BeginResolve(sel.instructions, r.out \o sel.lines)
               [] OTHER ->
                    /\ resolvedEnv' = ProcessEnv
                    /\ \E o \in SpawnOutcomes :
                          SpawnTarget(ProcessEnv,
                             r.out \o sel.lines \o
                             <<consoleError("No target environment instructions provided",
                                            {})>>, o)
                    /\ UNCHANGED <<instructions, resolveVars>>
    /\ UNCHANGED <<apiVars, inputVars>>

(***************************************************************************)
(* resolvePlaceholders: the resolution units and Promise.all               *)
(***************************************************************************)
\* mutant: fulfilled by the first fulfilment, like Promise.any
promiseAny(agg, unitsAfter, k, r) ==
    IF agg.state # "pending" THEN agg
    ELSE IF ~r.ok THEN [state |-> "rejected", err |-> wrapUnitError(r.err, k)]
    ELSE [state |-> "fulfilled", err |-> NoError]

\* mutant: fulfilled once every unit has settled, like Promise.allSettled
promiseAllSettled(agg, unitsAfter, k, r) ==
    IF agg.state # "pending" THEN agg
    ELSE IF \A j \in DOMAIN unitsAfter : unitsAfter[j] # "pending"
    THEN [state |-> "fulfilled", err |-> NoError]
    ELSE agg

\* mutant: a later rejection replaces the error of an earlier one
promiseAllLastError(agg, unitsAfter, k, r) ==
    IF ~r.ok THEN [state |-> "rejected", err |-> wrapUnitError(r.err, k)]
    ELSE IF agg.state # "pending" THEN agg
    ELSE IF \A j \in DOMAIN unitsAfter : unitsAfter[j] = "ok"
    THEN [state |-> "fulfilled", err |-> NoError]
    ELSE agg

\* Promise.all after unit k settled with r: rejected by the first rejection,
\* fulfilled when every unit is fulfilled
promiseAll(agg, unitsAfter, k, r) ==
    IF agg.state # "pending" THEN agg
    ELSE IF ~r.ok THEN [state |-> "rejected", err |-> wrapUnitError(r.err, k)]
    ELSE IF \A j \in DOMAIN unitsAfter : unitsAfter[j] = "ok"
    THEN [state |-> "fulfilled", err |-> NoError]
    ELSE agg

\* mutant: every unit writes the same slot of the result object
unitWriteShared(map, k, r) == IF r.ok THEN Spread(map, kA :> r.value) ELSE map

\* the write of one unit into the result object (resolvedEnv[key] = value):
\* the object is a literal {}, so the key __proto__ is the accessor it
\* inherits from Object.prototype and the assignment creates no property
unitWrite(map, k, r) ==
    IF r.ok /\ k # kProto THEN Spread(map, k :> r.value) ELSE map

\* the string makes its unit call getKeytarPassword (lines 350-359)
callsKeytar(placeholder) ==
    /\ startsWith(placeholder, cKeyring)
    /\ ~malformed(split(substring(placeholder, 8), ":"))

\* lines 285-293: every unit of the one call of resolvePlaceholders finds
\* both module variables null, since each reaches the test before any
\* import has settled; the import then leaves the module or the error in
\* them, and a failed import is reported with console.warn
importKeytar(state) ==
    IF state = "unloadable"
    THEN [module |-> "null", importError |-> "Error", warned |-> TRUE]
    ELSE [module |-> "keytar", importError |-> "null", warned |-> FALSE]

UnitSettle(k) ==
    /\ pc = "resolving"
    /\ k \in DOMAIN units
    /\ units[k] = "pending"
    /\ LET r == resolveSinglePlaceholder(instructions[k], Os, keytar)
           unitsAfter == [units EXCEPT ![k] = IF r.ok THEN "ok" ELSE "failed"]
       IN
       /\ units' = unitsAfter
       /\ resolved' = unitWrite(resolved, k, r)
       /\ aggregate' = promiseAll(aggregate, unitsAfter, k, r)
       /\ capCalls' = capCalls \o r.calls
    /\ IF callsKeytar(instructions[k])
       THEN /\ keytarModule' = importKeytar(keytar).module
            /\ keytarImportError' = importKeytar(keytar).importError
            /\ Write(When(importKeytar(keytar).warned,
                          <<consoleWarn("Warning: Could not load keytar module.", {})>>))
       ELSE UNCHANGED <<keytarModule, keytarImportError, streamVars>>
    /\ UNCHANGED <<apiVars, inputVars, mainVars, configIo, childVars, signalVars>>

\* mutant: the report of the failure shows what had been resolved
resolutionFailureReportPartial(err) ==
    consoleError("Placeholder resolution failed:", err.mentions \cup Values(resolved))

\* the catch block of the resolution (lines 134-143)
resolutionFailureReport(err) ==
    IF err.type = "ResolutionError"
    THEN consoleError("Placeholder resolution failed:",
                      err.mentions \cup {err.placeholder})
    ELSE consoleError("Error resolving placeholders:", err.mentions)

ResumeRejected ==
    /\ pc = "resolving"
    /\ aggregate.state = "rejected"
    /\ Write(<<resolutionFailureReport(aggregate.err)>>)
    /\ Exit(1, "resolution")
    /\ UNCHANGED <<apiVars, inputVars, instructions, resolvedEnv, configIo, resolveVars,
                   childVars, signalVars>>

\* mutant: the resolved map is logged whether or not -v was given
resolvedReportAlways(map) ==
    <<consoleError("Resolved environment additions/overrides:", Stringified(map)),
      consoleError("Placeholders resolved successfully.", {})>>

\* the lines logged after a successful resolution (lines 129-133)
resolvedReport(map) ==
    When(verbose, <<consoleError("Resolved environment additions/overrides:",
                                 Stringified(map))>>)
    \o <<consoleError("Placeholders resolved successfully.", {})>>

\* lines 129-133, then 148-203
ResumeFulfilled ==
    /\ pc = "resolving"
    /\ aggregate.state = "fulfilled"
    /\ \E o \in SpawnOutcomes :
          LET env == Spread(resolvedEnv, resolved) IN
          /\ resolvedEnv' = env
          /\ SpawnTarget(env, resolvedReport(resolved), o)
    /\ UNCHANGED <<apiVars, inputVars, instructions, configIo, resolveVars>>

(***************************************************************************)
(* The child and its handlers                                              *)
(***************************************************************************)
\* mutant: process.exit() without the failure code
ChildErrorHandlerExitZero(code, lines) ==
    /\ Write(lines \o <<childErrorReport(code)>>)
    /\ stdinPiped' = FALSE
    /\ Exit(0, "child-error")

\* mutant: the pipe is left in place
unpipeNothing(piped) == piped

\* process.stdin.unpipe(child.stdin) (line 183)
unpipe(piped) == FALSE

\* child.on('error', ...) (lines 177-185) for an error with the given code;
\* lines are what the interrupted caller had logged before
ChildErrorHandler(code, lines) ==
    /\ Write(lines \o <<childErrorReport(code)>>)
    /\ stdinPiped' = unpipe(stdinPiped)
    /\ Exit(1, "child-error")

\* the error event of a child that could not be spawned, on the next tick
ChildSpawnError ==
    /\ pc = "spawning"
    /\ ChildErrorHandler(spawnErrno, <<>>)
    /\ UNCHANGED <<apiVars, inputVars, instructions, resolvedEnv, configIo, resolveVars,
                   spawnCall, childState, spawnErrno, childStatus, childSignals,
                   childOut, childStdin, signalVars>>

\* the child writes one chunk to its standard output
ChildWrite ==
    /\ pc = "running"
    /\ childState = "running"
    /\ childOut < MaxOut
    /\ childOut' = childOut + 1
    /\ UNCHANGED <<apiVars, inputVars, mainVars, configIo, resolveVars, spawnCall, childState,
                   spawnErrno, childStatus, childSignals, stdinPiped, childStdin, streamVars,
                   signalVars>>

\* process.stdin.pipe(child.stdin): a chunk read from the standard input of
\* the supervisor is written to the standard input of the child, as long as
\* the pipe is in place and the supervisor runs
ForwardStdin ==
    /\ pc \in {"spawning", "running"}
    /\ stdinPiped
    /\ childStdin < MaxIn
    /\ childStdin' = childStdin + 1
    /\ UNCHANGED <<apiVars, inputVars, mainVars, configIo, resolveVars, spawnCall, childState,
                   spawnErrno, childStatus, childSignals, childOut, stdinPiped, streamVars,
                   signalVars>>

Forwarded == Len(SelectSeq(stdout, LAMBDA e : e.src = "child"))

\* child.stdout.pipe(process.stdout): the next chunk of the child is written
ForwardStdout ==
    /\ pc = "running"
    /\ Forwarded < childOut
    /\ stdout' = Append(stdout, [src |-> "child", chunk |-> Forwarded + 1,
                                 text |-> "", vals |-> {}])
    /\ UNCHANGED <<apiVars, inputVars, mainVars, configIo, resolveVars, childVars, stderr,
                   signalVars>>

\* the child ends by itself or is killed by a signal it received (from the
\* supervisor or from elsewhere: SIGHUP)
ChildEnds ==
    /\ pc = "running"
    /\ childState = "running"
    /\ \E st \in {ExitedWith(c) : c \in ExitCodes}
                 \cup {KilledBy(childSignals[i]) : i \in DOMAIN childSignals}
                 \cup {KilledBy("SIGHUP")} :
          childStatus' = st
    /\ childState' = "dead"
    /\ UNCHANGED <<apiVars, inputVars, mainVars, configIo, resolveVars, spawnCall, spawnErrno,
                   childSignals, childOut, stdinPiped, childStdin, streamVars, signalVars>>

\* child.on('exit', ...)
OnChildExit ==
    /\ pc = "running"
    /\ childState = "dead"
    /\ Write(<<exitHandlerReport(childStatus)>>)
    /\ Exit(exitHandlerCode(childStatus), "child-exit")
    /\ UNCHANGED <<apiVars, inputVars, instructions, resolvedEnv, configIo, resolveVars,
                   childVars, signalVars>>

\* what child.kill can do: deliver the signal, find the child gone (it
\* returns false), or fail with EPERM, which emits the child's error event
KillResults == IF childState = "running" THEN {"delivered", "EPERM"} ELSE {"gone"}

\* the signal a handler passes to child.kill for the signal it received
relayedSignal(sig) == sig

\* mutant: the handler relays the signal and starts no timer
escalationTimersNone(sig, t) == <<>>

\* mutant: the handler starts the timer twice
escalationTimersTwice(sig, t) ==
    <<[sig |-> sig, due |-> t + GraceMs], [sig |-> sig, due |-> t + GraceMs]>>

\* the timers a signal handler starts at time t
escalationTimers(sig, t) == <<[sig |-> sig, due |-> t + GraceMs]>>

\* mutant: the escalation sends a signal the child can ignore
escalationSignalTerm == "SIGTERM"

\* the signal the escalation timer passes to child.kill
escalationSignal == "SIGKILL"

\* child.kill(sig) with result res; timersAfter are the timers once the
\* caller has finished.  On EPERM kill emits the child's error event, whose
\* handler exits before the caller continues
Kill(sig, res, lines, timersAfter) ==
    /\ killLog' = Append(killLog, [sig |-> sig, at |-> now, result |-> res])
    /\ IF res = "EPERM"
       THEN /\ ChildErrorHandler("EPERM", lines)
            /\ UNCHANGED <<childState, childStatus, childSignals, timers>>
       ELSE /\ Write(lines)
            /\ timers' = timersAfter
            /\ UNCHANGED <<pc, exitCode, exitCause, stdinPiped>>
            /\ IF res = "delivered"
               THEN /\ childSignals' = Append(childSignals, sig)
                    /\ IF sig = "SIGKILL"
                       THEN /\ childState' = "dead"
                            /\ childStatus' = KilledBy("SIGKILL")
                       ELSE UNCHANGED <<childState, childStatus>>
               ELSE UNCHANGED <<childState, childStatus, childSignals>>

\* mutant: no handler is installed, the signal ends the supervisor
OnSignalExits(sig) ==
    /\ pc = "running"
    /\ Len(sigLog) < MaxSignals
    /\ sigLog' = Append(sigLog, [sig |-> sig, at |-> now])
    /\ Exit(1, "signal")
    /\ UNCHANGED <<apiVars, inputVars, instructions, resolvedEnv, configIo, resolveVars,
                   childVars, streamVars, now, timers, killLog>>

\* process.on('SIGINT' / 'SIGTERM', ...) (lines 188-195)
OnSignal(sig) ==
    /\ pc = "running"
    /\ Len(sigLog) < MaxSignals
    /\ sigLog' = Append(sigLog, [sig |-> sig, at |-> now])
    /\ \E res \in KillResults :
          Kill(relayedSignal(sig), res,
               <<consoleError("received, terminating target process...", {<<sig>>})>>,
               timers \o escalationTimers(sig, now))
    /\ UNCHANGED <<apiVars, inputVars, instructions, resolvedEnv, configIo, resolveVars,
                   spawnCall, spawnErrno, childOut, childStdin, now>>

Without(seq, i) == SubSeq(seq, 1, i - 1) \o SubSeq(seq, i + 1, Len(seq))

\* the callback of setTimeout(() => child.kill('SIGKILL'), 1000)
TimerFires ==
    /\ pc = "running"
    /\ \E i \in DOMAIN timers :
          /\ timers[i].due <= now
          /\ \E res \in KillResults :
                Kill(escalationSignal, res, <<>>, Without(timers, i))
    /\ UNCHANGED <<apiVars, inputVars, instructions, resolvedEnv, configIo, resolveVars,
                   spawnCall, spawnErrno, childOut, childStdin, now, sigLog>>

\* time passes: while the supervisor runs, not beyond the moment a pending
\* timer is due; its timers end with it
Advance ==
    /\ pc = "running" \/ (pc = "exited" /\ childState = "running")
    /\ LET d == GraceMs \div 2 IN
          /\ now + d <= MaxTime
          /\ pc = "running" => \A i \in DOMAIN timers : now + d <= timers[i].due
          /\ now' = now + d
    /\ UNCHANGED <<apiVars, inputVars, mainVars, configIo, resolveVars, childVars, streamVars,
                   timers, sigLog, killLog>>

(***************************************************************************)
(* Spec: every invocation, from the command line to the exit of the        *)
(* supervisor, while no signal is sent to the supervisor.                  *)
(***************************************************************************)
Next ==
    \/ ParseArgv
    \/ ParseTargetEnv
    \/ LoadConfigAndSelect
    \/ \E k \in {kA, kPORT, kProto, kToString} : UnitSettle(k)
    \/ ResumeRejected
    \/ ResumeFulfilled
    \/ ChildSpawnError
    \/ ChildWrite
    \/ ForwardStdout
    \/ ForwardStdin
    \/ ChildEnds
    \/ OnChildExit

Spec == Init /\ [][Next]_vars

(***************************************************************************)
(* SupervisorSpec: the invocation without options (no --target-env, no     *)
(* profile, no -c), with the signals sent to the supervisor and the time   *)
(* of the escalation timers; the output of the child is left to Spec.      *)
(***************************************************************************)
SupervisorInit ==
    /\ Init
    /\ cli = "run"
    /\ ~verbose
    /\ targetEnvJson.kind = "undefined"
    /\ specifiedConfigPath = Undefined
    /\ specifiedProfile = Undefined
    /\ keytar = "ok"

SupervisorNext ==
    \/ ParseArgv
    \/ LoadConfigAndSelect
    \/ ChildSpawnError
    \/ ForwardStdin
    \/ ChildEnds
    \/ OnChildExit
    \/ \E sig \in RelayedSignals : OnSignal(sig)
    \/ TimerFires
    \/ Advance

SupervisorSpec == SupervisorInit /\ [][SupervisorNext]_vars

\* SupervisorLiveSpec: the same run under the scheduling of the event loop:
\* time passes, a timer that is due fires, the exit event of a child that
\* has ended is delivered.  The child is free to ignore every signal but
\* SIGKILL and never to end by itself.  A signal is received only while
\* its grace period ends within the time the clock covers.
SupervisorLiveNext ==
    \/ ParseArgv
    \/ LoadConfigAndSelect
    \/ ChildSpawnError
    \/ ForwardStdin
    \/ ChildEnds
    \/ OnChildExit
    \/ \E sig \in RelayedSignals : now + GraceMs <= MaxTime /\ OnSignal(sig)
    \/ TimerFires
    \/ Advance

SupervisorLiveSpec ==
    /\ SupervisorInit
    /\ [][SupervisorLiveNext]_vars
    /\ WF_vars(Advance)
    /\ WF_vars(TimerFires)
    /\ WF_vars(OnChildExit)

(***************************************************************************)
(* ApiSpec: one direct call of an exported function, as the unit tests     *)
(* make them, on inputs drawn from bounded sets.                           *)
(***************************************************************************)
\* characters of a file's content
MaxContent == 3
\* characters after the prefix of a keyring placeholder
MaxRemainder == 4

Seqs(S, n) == UNION {[1..m -> S] : m \in 0..n}

kUnset == <<"N">>
pDenied == <<"/", "p">>

\* process.env of a call: the supervisor's, an empty one, FOO set to ""
ApiEnvs == {ProcessEnv, EmptyMap, (kFOO :> <<>>)}

\* the files of a call: the secret file has the given content
ApiFiles(content) ==
    (untildify(pSecret) :> FileContent(content))
        @@ (pDir :> ReadError("EISDIR"))
        @@ (pDenied :> ReadError("EACCES"))

ApiContents == Seqs({" ", "\n", "x"}, MaxContent)

EnvPlaceholders ==
    {cEnv \o n : n \in {<<>>, kFOO, kUnset, kToString, cFile \o pSecret}}

FilePlaceholders ==
    {cFile \o q : q \in {<<>>, pSecret, untildify(pSecret), pMissing, pDir, pDenied,
                          cEnv \o kFOO}}

KeyringPlaceholders ==
    {cKeyring \o r : r \in Seqs({"a", ":"}, MaxRemainder)}
        \cup {rKeyring, rKeyringAbsent}

\* "", "90", "env", "ENV:FOO", " h:/", "file" + ":" missing, "xenv:FOO"
LiteralPlaceholders ==
    {<<>>, rLiteral, <<"e", "n", "v">>, <<"E", "N", "V", ":">> \o kFOO,
     <<" ", "h", ":", "/">>, <<"x">> \o cEnv \o kFOO, <<"K", "e", "y", "r", "i", "n", "g", ":">> \o sSvc}

SingleCall(placeholder, os, k) ==
    [NoCall EXCEPT !.fn = "resolveSinglePlaceholder", !.placeholder = placeholder,
                   !.os = os, !.keytar = k]

ComposeCall(a, b) ==
    [NoCall EXCEPT !.fn = "compose", !.inherited = a, !.resolved = b]

LoadCall(configPath, w) ==
    [NoCall EXCEPT !.fn = "loadConfig", !.configPath = configPath, !.world = w]

\* maps of at most the keys A and PORT
ApiMaps == UNION {[D -> {vPortInherited, rLiteral}] : D \in SUBSET {kA, kPORT}}

ApiCalls ==
    {SingleCall(q, [env |-> e, files |-> FileSystem], "ok") :
        q \in EnvPlaceholders \cup LiteralPlaceholders, e \in ApiEnvs}
    \cup {SingleCall(q, [env |-> ProcessEnv, files |-> ApiFiles(c)], "ok") :
        q \in FilePlaceholders, c \in ApiContents}
    \cup {SingleCall(q, Os, k) : q \in KeyringPlaceholders, k \in KeytarStates}
    \cup {ComposeCall(m, n) : m \in ApiMaps, n \in ApiMaps}
    \cup {LoadCall(c, w) : c \in {Undefined, pExplicit}, w \in ConfigWorlds}

ApiInit ==
    /\ call \in ApiCalls
    /\ ret = NoReturn
    /\ cli = "run"
    /\ verbose = FALSE
    /\ targetEnvJson = [kind |-> "undefined", object |-> EmptyMap]
    /\ specifiedConfigPath = Undefined
    /\ specifiedProfile = Undefined
    /\ keytar = "ok"
    /\ ProgramStart

\* await resolveSinglePlaceholder(placeholder, keytarGetter)
ApiResolveSingle ==
    /\ call.fn = "resolveSinglePlaceholder"
    /\ ~ret.done
    /\ ret' = [NoReturn EXCEPT
                  !.done = TRUE,
                  !.single = resolveSinglePlaceholder(call.placeholder, call.os,
                                                      call.keytar)]
    /\ UNCHANGED <<call, inputVars, mainVars, configIo, resolveVars, childVars,
                   streamVars, signalVars>>

\* { ...{ ...inherited }, ...resolved }
ApiCompose ==
    /\ call.fn = "compose"
    /\ ~ret.done
    /\ ret' = [NoReturn EXCEPT
                  !.done = TRUE,
                  !.composed = compose(call.inherited, call.resolved)]
    /\ UNCHANGED <<call, inputVars, mainVars, configIo, resolveVars, childVars,
                   streamVars, signalVars>>

\* await loadConfig(configPath)
ApiLoadConfig ==
    /\ call.fn = "loadConfig"
    /\ ~ret.done
    /\ ret' = [NoReturn EXCEPT !.done = TRUE,
                               !.config = loadConfig(call.configPath, call.world)]
    /\ UNCHANGED <<call, inputVars, mainVars, configIo, resolveVars, childVars,
                   streamVars, signalVars>>

ApiNext == ApiResolveSingle \/ ApiCompose \/ ApiLoadConfig

ApiSpec == ApiInit /\ [][ApiNext]_vars

(***************************************************************************)
(* Properties                                                              *)
(***************************************************************************)
\* what resolveSinglePlaceholder gives for the instruction of key k
Resolution(k) == resolveSinglePlaceholder(instructions[k], Os, keytar)

IsReference(raw) ==
    startsWith(raw, cEnv) \/ startsWith(raw, cFile) \/ startsWith(raw, cKeyring)

\* C1: whenever spawn has been called, every instruction of the selected
\* set has resolved (no unit is pending or failed) and the environment given
\* to spawn holds, for every instruction key, the value the instruction
\* resolves to (violated by the key __proto__: its unit is fulfilled but the
\* environment has no such variable).
C1_SpawnOnlyAfterAllResolved ==
    spawnCall.called =>
        \A k \in DOMAIN instructions :
            /\ units[k] = "ok"
            /\ k \in DOMAIN spawnCall.env
            /\ spawnCall.env[k] = Resolution(k).value

\* C2: when some instruction of the selected set fails to resolve, spawn is
\* never called, no instruction is resolved twice, and the supervisor can
\* only exit with code 1.
C2_ResolutionFailureAborts ==
    (\E k \in DOMAIN instructions : ~Resolution(k).ok) =>
        /\ ~spawnCall.called
        /\ childState = "none"
        /\ Len(capCalls) <= Cardinality(DOMAIN instructions)
        /\ pc = "exited" => exitCode = 1 /\ exitCause = "resolution"

C2_Witness ==
    /\ pc = "exited"
    /\ exitCode = 1
    /\ exitCause = "resolution"
    /\ \E k \in DOMAIN units : units[k] = "ok"
    /\ \E k \in DOMAIN units : units[k] = "failed"

\* C3: once the child has ended with an exit code c, the supervisor exits
\* with c and with nothing else.
C3_MirrorsExitCode ==
    (pc = "exited" /\ childState = "dead" /\ childStatus.hasCode) =>
        exitCode = childStatus.code

C3_Witness ==
    /\ pc = "exited"
    /\ childStatus = ExitedWith(7)
    /\ exitCode = 7
    /\ sigLog # <<>>

\* C4: once the child has been ended by a signal, the supervisor exits with
\* code 1, whichever the signal and whether or not the supervisor sent it.
C4_SignalKillExitsOne ==
    (pc = "exited" /\ childState = "dead" /\ childStatus.signal # "null") =>
        exitCode = 1

C4_Witness ==
    /\ pc = "exited"
    /\ exitCause = "child-exit"
    /\ childStatus = KilledBy("SIGHUP")
    /\ killLog = <<>>

SpawnFailed == spawnCall.called /\ childState \in {"none", "failed"}

Started == childState \in {"running", "dead"}

\* C5 as stated: a failed spawn ends in exit code 1 without Running, and
\* the exit through the child's error handler is taken only for a child that
\* was never started.
C5_ErrorPathOnlyFromSpawning ==
    /\ (SpawnFailed /\ pc = "exited") => exitCode = 1
    /\ SpawnFailed => pc \in {"spawning", "exited"}
    /\ exitCause = "child-error" => ~Started

\* C5 as amended: a failed spawn ends in exit code 1 and the supervisor never
\* enters Running after it; every exit through the child's error handler has
\* code 1 and has torn down the forwarding of stdin, also when the child had
\* been started (a failed kill emits the error event of a running child).
C5_SpawnFailureExitsOne ==
    /\ [](/\ (SpawnFailed /\ pc = "exited") => exitCode = 1
          /\ SpawnFailed => pc \in {"spawning", "exited"} /\ killLog = <<>>
          /\ exitCause \in {"child-error", "spawn-throw"} => exitCode = 1
          /\ exitCause = "child-error" => ~stdinPiped)
    /\ [][pc = "spawning" => pc' \in {"spawning", "exited"}]_vars

C5_Witness ==
    /\ pc = "exited"
    /\ exitCause = "child-error"
    /\ childState = "failed"
    /\ spawnErrno = "EACCES"

LastLine == stderr[Len(stderr)]

CommandNotFound == consoleError("Target command not found:", {TargetCommand})

\* C6: a spawn failure with ENOENT, thrown by spawn or emitted as the child's
\* error event, is reported by the line that names the command; every other
\* failure of the child is reported by another line; the report is the last
\* line logged and is logged once.
C6_CommandNotFoundIsDistinct ==
    (pc = "exited" /\ exitCause \in {"child-error", "spawn-throw"}) =>
        /\ spawnErrno = "ENOENT" => LastLine = CommandNotFound
        /\ spawnErrno # "ENOENT" => LastLine.text # CommandNotFound.text
        /\ TargetCommand \in LastLine.vals <=> spawnErrno = "ENOENT"
        /\ Len(SelectSeq(stderr, LAMBDA l : l.text = LastLine.text)) = 1

C6_Witness ==
    /\ pc = "exited"
    /\ exitCause = "child-error"
    /\ spawnErrno = "ENOENT"
    /\ LastLine = CommandNotFound

Relayed(i) ==
    \E j \in DOMAIN killLog :
        killLog[j].sig = sigLog[i].sig /\ killLog[j].at = sigLog[i].at

Escalated(i) ==
    \E j \in DOMAIN killLog :
        killLog[j].sig = "SIGKILL" /\ killLog[j].at = sigLog[i].at + GraceMs

\* C7 as stated: every signal received is passed to child.kill, and a child
\* still running more than the grace period after a signal was received has
\* been sent SIGKILL when the grace period ended.
C7_RelayThenKill ==
    \A i \in DOMAIN sigLog :
        /\ Relayed(i)
        /\ (childState = "running" /\ now > sigLog[i].at + GraceMs) => Escalated(i)

\* C7 as amended: every signal received is passed to child.kill, and a
\* supervisor still running more than the grace period after a signal was
\* received has called child.kill('SIGKILL') when the grace period ended; a
\* SIGKILL that was delivered has ended the child.
C7_RelayThenKillWhileRunning ==
    /\ \A i \in DOMAIN sigLog :
          /\ Relayed(i)
          /\ (pc = "running" /\ now > sigLog[i].at + GraceMs) => Escalated(i)
    /\ \A j \in DOMAIN killLog :
          (killLog[j].sig = "SIGKILL" /\ killLog[j].result = "delivered") =>
              childState = "dead"

C7_Witness ==
    /\ pc = "running"
    /\ Len(sigLog) = 1
    /\ sigLog[1] = [sig |-> "SIGINT", at |-> 0]
    /\ now > GraceMs
    /\ killLog = <<[sig |-> "SIGINT", at |-> 0, result |-> "delivered"],
                   [sig |-> "SIGKILL", at |-> GraceMs, result |-> "delivered"]>>

TimersOf(sig) == SelectSeq(timers, LAMBDA t : t.sig = sig)

\* C8 as stated: while the supervisor runs, at most one timer is pending
\* for each kind of signal.
C8_OneTimerPerSignalKind ==
    pc = "running" => \A sig \in RelayedSignals : Len(TimersOf(sig)) <= 1

KillCalls == SelectSeq(killLog, LAMBDA c : c.sig = "SIGKILL")

\* C8 as amended: every signal received starts exactly one timer, due one
\* grace period later, and no timer is cancelled or merged: while the
\* supervisor runs, the timers pending and the timers fired are as many as
\* the signals received, and every pending timer belongs to a signal received.
C8_OneTimerPerDelivery ==
    pc = "running" =>
        /\ Len(timers) + Len(KillCalls) = Len(sigLog)
        /\ \A i \in DOMAIN timers :
              /\ timers[i].due >= now
              /\ \E j \in DOMAIN sigLog :
                    /\ sigLog[j].sig = timers[i].sig
                    /\ sigLog[j].at + GraceMs = timers[i].due

C8_Witness ==
    /\ pc = "running"
    /\ Len(TimersOf("SIGINT")) = 2
    /\ \E i, j \in DOMAIN timers : timers[i].due # timers[j].due

\* the values obtained through env:, file: and keyring: references
SecretValues ==
    {resolved[k] : k \in {j \in DOMAIN resolved : IsReference(instructions[j])}}

Logged(v) ==
    \/ \E i \in DOMAIN stderr : v \in stderr[i].vals
    \/ \E i \in DOMAIN stdout : v \in stdout[i].vals

InArgv(v) ==
    spawnCall.called /\
        (v = spawnCall.command \/ \E i \in DOMAIN spawnCall.args : spawnCall.args[i] = v)

\* C9 as stated: no resolved secret is in a line the supervisor wrote or in
\* the arguments of the child.
C9_SecretsNeverLogged ==
    \A v \in SecretValues : ~Logged(v) /\ ~InArgv(v)

\* C9 as amended: no resolved secret is ever in the arguments of the child,
\* and without -v none is in a line the supervisor wrote, on every path.
C9_SecretsLoggedOnlyWhenVerbose ==
    \A v \in SecretValues : ~InArgv(v) /\ (~verbose => ~Logged(v))

C9_Witness ==
    /\ ~verbose
    /\ pc = "exited"
    /\ exitCause = "child-exit"
    /\ SecretValues = {vFileSecret, vEnvSecret}

\* C10: the standard output of the supervisor holds the chunks the child
\* wrote, in the order written, and nothing else.
C10_StdoutIsChildOutput ==
    \A i \in DOMAIN stdout : stdout[i].src = "child" /\ stdout[i].chunk = i

\* C11: compose(inherited, resolved) holds, for every key, the resolved
\* value when the key is in resolved, else the inherited value when the key
\* is in inherited, and no other key; the call leaves its arguments as they
\* were.
C11_ComposeIsOverlay ==
    /\ []((ret.done /\ call.fn = "compose") =>
            /\ DOMAIN ret.composed = DOMAIN call.inherited \cup DOMAIN call.resolved
            /\ \A k \in DOMAIN call.resolved : ret.composed[k] = call.resolved[k]
            /\ \A k \in DOMAIN call.inherited \ DOMAIN call.resolved :
                  ret.composed[k] = call.inherited[k])
    /\ [][call' = call]_vars

C11_Witness ==
    /\ ret.done
    /\ call.fn = "compose"
    /\ call.inherited = (kA :> vPortInherited) @@ (kPORT :> vPortInherited)
    /\ call.resolved = (kPORT :> rLiteral)
    /\ ret.composed = (kA :> vPortInherited) @@ (kPORT :> rLiteral)

\* C12: the environment given to spawn is the inherited environment overlaid
\* with the resolved map and nothing else, and without instructions the
\* environment given is the inherited one.
C12_ChildGetsFinalEnvironment ==
    spawnCall.called =>
        /\ spawnCall.env = compose(ProcessEnv, resolved)
        /\ spawnCall.env = resolvedEnv
        /\ instructions = EmptyMap => spawnCall.env = ProcessEnv

C12_Witness ==
    /\ childState = "running"
    /\ instructions = (kA :> rEnvSet) @@ (kPORT :> rLiteral)
    /\ spawnCall.env = (kFOO :> vEnvSecret) @@ (kA :> vEnvSecret) @@ (kPORT :> rLiteral)

\* the instruction the documented precedence selects for a key of the dev
\* profile when --target-env is given too
Precedence(k) ==
    IF k \in DOMAIN targetEnvJson.object
    THEN targetEnvJson.object[k] ELSE Profiles[nDev].targetEnv[k]

\* C13: when -p dev and --target-env are both given and the child is
\* spawned, every variable of the profile has been resolved and given to the
\* child, from the instruction of --target-env when it has one, else from
\* the instruction of the profile.
C13_TargetEnvOverridesPerKey ==
    (spawnCall.called /\ targetEnvJson.kind = "object" /\ specifiedProfile = nDev) =>
        \A k \in DOMAIN Profiles[nDev].targetEnv :
            /\ resolveSinglePlaceholder(Precedence(k), Os, keytar).ok
            /\ k \in DOMAIN spawnCall.env
            /\ spawnCall.env[k] = resolveSinglePlaceholder(Precedence(k), Os, keytar).value

\* The error taxonomy, read from the message of the error as a caller reads
\* it: the report an error makes is the fragment after "Placeholder".
Says(err, frag) == \E i \in DOMAIN err.message : err.message[i] = frag

IsInvalidReference(err) ==
    /\ err.type = "ResolutionError"
    /\ Len(err.message) = 2
    /\ err.message[2] \in {"invalid: environment variable name cannot be empty",
                           "invalid: file path cannot be empty",
                           "invalid format: expected keyring:service:account"}

Reports(err, what) ==
    /\ err.type = "ResolutionError"
    /\ Len(err.message) >= 3
    /\ err.message[2] = "resolution failed:"
    /\ err.message[3] = what

IsUnset(err) == Reports(err, "environment variable is not set")

IsNotFound(err) == Reports(err, "file not found at")

IsReadFailed(err) == Reports(err, "failed to read file")

IsSecretNotFound(err) == Reports(err, "secret not found in keychain")

IsCapabilityUnavailable(err) == Reports(err, "could not get secret from keychain")

\* the call made and returned is resolveSinglePlaceholder of prefix + rest
Returned(prefix) ==
    /\ ret.done
    /\ call.fn = "resolveSinglePlaceholder"
    /\ startsWith(call.placeholder, prefix)

Rest(prefix) == SubSeq(call.placeholder, Len(prefix) + 1, Len(call.placeholder))

\* C14: resolving "env:NAME" for a non-empty NAME that is no variable of the
\* environment fails, with the report that the variable is not set and not
\* with the report of an invalid placeholder.
C14_UnsetVariableFails ==
    (Returned(cEnv) /\ Rest(cEnv) # <<>> /\ Rest(cEnv) \notin DOMAIN call.os.env) =>
        /\ ~ret.single.ok
        /\ IsUnset(ret.single.err)
        /\ ~IsInvalidReference(ret.single.err)

\* C15: resolving "env:" or "file:" fails with the report of an invalid
\* placeholder, and neither the environment nor a file has been read.
C15_EmptyNameIsInvalid ==
    (ret.done /\ call.fn = "resolveSinglePlaceholder"
        /\ call.placeholder \in {cEnv, cFile}) =>
        /\ ~ret.single.ok
        /\ IsInvalidReference(ret.single.err)
        /\ ret.single.calls = <<>>

C15_Witness ==
    /\ ret.done
    /\ call.placeholder = cFile
    /\ IsInvalidReference(ret.single.err)
    /\ ret.single.err.placeholder = cFile

\* s is t without white space at its two ends
Stripped(s, t) ==
    \E i \in 0..Len(t) : \E j \in i..Len(t) :
        /\ s = SubSeq(t, i + 1, j)
        /\ \A n \in (1..i) \cup ((j + 1)..Len(t)) : t[n] \in WhiteSpace
        /\ s # <<>> => s[1] \notin WhiteSpace /\ s[Len(s)] \notin WhiteSpace

\* C16: resolving "file:P" for a readable file gives the content of the
\* file without the white space at its start and at its end, the characters
\* in between (white space too) as they are in the file.
C16_FileContentTrimmed ==
    (Returned(cFile) /\ untildify(Rest(cFile)) \in DOMAIN call.os.files
        /\ call.os.files[untildify(Rest(cFile))].ok) =>
        /\ ret.single.ok
        /\ Stripped(ret.single.value, call.os.files[untildify(Rest(cFile))].content)

C16_Witness ==
    /\ Returned(cFile)
    /\ Rest(cFile) = pSecret
    /\ call.os.files[untildify(pSecret)].content = <<"x", " ", "\n">>
    /\ ret.single.value = <<"x">>

\* C17: resolving "file:P" reports a file not found exactly when the path
\* does not exist; every other failure of the read is reported as a failed
\* read that names the cause; no error is both reports.
C17_NotFoundOrReadFailed ==
    (Returned(cFile) /\ Rest(cFile) # <<>>) =>
        LET path == untildify(Rest(cFile))
            err == ret.single.err
        IN
        /\ IsNotFound(err) <=> path \notin DOMAIN call.os.files
        /\ (path \in DOMAIN call.os.files /\ ~call.os.files[path].ok) =>
              /\ ~ret.single.ok
              /\ IsReadFailed(err)
              /\ Says(err, call.os.files[path].code)
        /\ ~(IsNotFound(err) /\ IsReadFailed(err))

C17_Witness ==
    /\ Returned(cFile)
    /\ Rest(cFile) = pDenied
    /\ IsReadFailed(ret.single.err)
    /\ Says(ret.single.err, "EACCES")

\* r is SERVICE:ACCOUNT: one colon, with a character before and after it
Colons(r) == {i \in DOMAIN r : r[i] = ":"}

WellFormed(r) ==
    Cardinality(Colons(r)) = 1 /\ 1 \notin Colons(r) /\ Len(r) \notin Colons(r)

\* C18: resolving a keyring placeholder whose remainder is not
\* SERVICE:ACCOUNT fails with the report of an invalid placeholder and the
\* getter is not called, whatever the state of the keychain.
C18_MalformedKeyringNeverCalls ==
    (Returned(cKeyring) /\ ~WellFormed(Rest(cKeyring))) =>
        /\ ~ret.single.ok
        /\ IsInvalidReference(ret.single.err)
        /\ ret.single.calls = <<>>

C18_Witness ==
    /\ Returned(cKeyring)
    /\ Rest(cKeyring) = <<"a", ":", "a", ":">>
    /\ call.keytar = "unloadable"
    /\ IsInvalidReference(ret.single.err)

ServiceOf(r) == SubSeq(r, 1, (CHOOSE i \in Colons(r) : TRUE) - 1)

AccountOf(r) == SubSeq(r, (CHOOSE i \in Colons(r) : TRUE) + 1, Len(r))

\* the getter answers and has no secret for the service and account of r
Absent(r) ==
    call.keytar = "ok" /\ ~getPassword(ServiceOf(r), AccountOf(r)).found

\* C19: resolving "keyring:SERVICE:ACCOUNT" calls the getter once, with
\* SERVICE and ACCOUNT; when the getter has no secret the resolution fails
\* with the report that the secret was not found, and not with the report
\* that the keychain could not be read.
C19_AbsentSecretIsNotFound ==
    (Returned(cKeyring) /\ WellFormed(Rest(cKeyring))) =>
        /\ ret.single.calls =
              <<Call("keyring", <<ServiceOf(Rest(cKeyring)), AccountOf(Rest(cKeyring))>>)>>
        /\ Absent(Rest(cKeyring)) =>
              /\ ~ret.single.ok
              /\ IsSecretNotFound(ret.single.err)
              /\ ~IsCapabilityUnavailable(ret.single.err)

\* C20: when the getter fails (the keychain module does not load, or the
\* call rejects) the resolution fails with the report that the keychain
\* could not be read, which names the cause; and no result of the getter
\* gives an error that is that report and also says that the secret was not
\* found.
C20_CapabilityFailureIsDistinct ==
    (Returned(cKeyring) /\ WellFormed(Rest(cKeyring))) =>
        /\ call.keytar # "ok" =>
              /\ ~ret.single.ok
              /\ IsCapabilityUnavailable(ret.single.err)
              /\ Says(ret.single.err,
                      getKeytarPassword(call.keytar, ServiceOf(Rest(cKeyring)),
                                        AccountOf(Rest(cKeyring))).message[1])
        /\ ~(IsCapabilityUnavailable(ret.single.err)
                /\ Says(ret.single.err, "secret not found in keychain"))

\* the first characters of s are those of p, compared one by one
HasPrefix(s, p) == Len(s) >= Len(p) /\ \A i \in 1..Len(p) : s[i] = p[i]

SingleReturned == ret.done /\ call.fn = "resolveSinglePlaceholder"

\* C21: a string that starts with none of "env:", "file:", "keyring:"
\* resolves to itself and no capability is called.
C21_LiteralResolvesToItself ==
    (SingleReturned /\ \A p \in {cEnv, cFile, cKeyring} : ~HasPrefix(call.placeholder, p)) =>
        /\ ret.single.ok
        /\ ret.single.value = call.placeholder
        /\ ret.single.calls = <<>>

C21_Witness ==
    /\ SingleReturned
    /\ call.placeholder = <<" ", "h", ":", "/">>
    /\ ret.single.value = <<" ", "h", ":", "/">>

\* the capabilities a resolution may call, by the prefix of the string
CapOf(s) ==
    IF HasPrefix(s, cEnv) THEN "env"
    ELSE IF HasPrefix(s, cFile) THEN "file"
    ELSE IF HasPrefix(s, cKeyring) THEN "keyring"
    ELSE "literal"

\* C22: the kind of a string is the first of "env:", "file:", "keyring:"
\* that is its prefix, compared with case: the resolution calls no capability
\* of another kind, an env: string looks up all that follows the prefix, and
\* a string whose prefix is written in another case is a literal.
C22_KindByLeadingPrefix ==
    SingleReturned =>
        /\ \A i \in DOMAIN ret.single.calls :
              ret.single.calls[i].cap = CapOf(call.placeholder)
        /\ (CapOf(call.placeholder) = "env" /\ Len(call.placeholder) > Len(cEnv)) =>
              ret.single.calls = <<Call("env", <<Rest(cEnv)>>)>>
        /\ CapOf(call.placeholder) = "literal" =>
              ret.single.ok /\ ret.single.value = call.placeholder

C22_Witness ==
    /\ SingleReturned
    /\ call.placeholder = cFile \o cEnv \o kFOO
    /\ ret.single.calls = <<Call("file", <<cEnv \o kFOO>>)>>
    /\ IsNotFound(ret.single.err)

\* C23: when resolvePlaceholders is rejected, the error is that of an
\* instruction that failed and names the variable and the raw string of that
\* instruction.
C23_ErrorNamesKeyAndPlaceholder ==
    aggregate.state = "rejected" =>
        \E k \in DOMAIN instructions :
            /\ units[k] = "failed"
            /\ aggregate.err.placeholder = instructions[k]
            /\ {k, instructions[k]} \subseteq aggregate.err.mentions

C23_Witness ==
    /\ aggregate.state = "rejected"
    /\ instructions = (kA :> rEnvUnset) @@ (kPORT :> rLiteral)
    /\ units[kPORT] = "ok"
    /\ {kA, rEnvUnset} \subseteq aggregate.err.mentions

\* C24: resolvePlaceholders is fulfilled only when every unit is; a failed
\* unit leaves it rejected; the unit that fails while it is pending rejects
\* it with the error of that unit, and once rejected it stays as it is,
\* whatever the units that settle later do.
C24_FirstFailureRejects ==
    /\ [](aggregate.state = "fulfilled" => \A k \in DOMAIN units : units[k] = "ok")
    /\ []((\E k \in DOMAIN units : units[k] = "failed") => aggregate.state = "rejected")
    /\ [][\A k \in DOMAIN units :
            (units[k] = "pending" /\ units'[k] = "failed"
                /\ aggregate.state = "pending") =>
                /\ aggregate'.state = "rejected"
                /\ aggregate'.err.placeholder = instructions[k]
                /\ k \in aggregate'.err.mentions]_vars
    /\ [][aggregate.state = "rejected" => aggregate' = aggregate]_vars

C24_Witness ==
    /\ aggregate.state = "rejected"
    /\ instructions = (kA :> rFileMissing) @@ (kPORT :> rEnvUnset)
    /\ units = (kA :> "failed") @@ (kPORT :> "failed")
    /\ aggregate.err.placeholder = rEnvUnset

\* C25: when resolvePlaceholders is fulfilled the map it returns has the
\* keys of the instructions, each with the value resolveSinglePlaceholder
\* gives for the string of that key (violated by the key __proto__, which
\* the result object never gets).
C25_ResolvedMapPerKey ==
    aggregate.state = "fulfilled" =>
        /\ DOMAIN resolved = DOMAIN instructions
        /\ \A k \in DOMAIN instructions :
              Resolution(k).ok /\ resolved[k] = Resolution(k).value

\* lines the program writes for an error of the configuration or of the
\* selection of the profile
ConfigErrors ==
    {"Error loading or parsing config file",
     "Error: Specified config file not found:",
     "Error: Config file loaded, but no profile specified",
     "Error: Profile not found in config file",
     "Error: Profile specified, but no configuration file found"}

Failure ==
    \/ targetEnvJson.kind \in {"malformed", "nonobject"}
    \/ \E i \in DOMAIN stderr : stderr[i].text \in ConfigErrors
    \/ aggregate.state = "rejected"
    \/ SpawnFailed
    \/ childStatus.signal # "null"

\* C26: a run in which --target-env was invalid, the configuration or the
\* profile was in error, a resolution failed, the spawn failed or the child
\* was killed by a signal does not exit with code 0.
C26_FailuresExitNonZero ==
    (pc = "exited" /\ Failure) => exitCode # 0

LoadReturned == ret.done /\ call.fn = "loadConfig"

\* the paths of the calls of one kind that loadConfig made, in their order
PathsOf(op) ==
    LET sel == SelectSeq(ret.config.io, LAMBDA c : c.op = op) IN
    [i \in DOMAIN sel |-> sel[i].path]

\* the standard locations, written out: the working directory /w and the
\* user directory /h/c, each with the name .yaml before the name .yml
StandardLocations ==
    << <<"/", "w", "/", ".", "y", "a", "m", "l">>,
       <<"/", "w", "/", ".", "y", "m", "l">>,
       <<"/", "h", "/", "c", "/", ".", "y", "a", "m", "l">>,
       <<"/", "h", "/", "c", "/", ".", "y", "m", "l">> >>

\* the standard locations that exist, by their rank
Existing == {i \in 1..4 : StandardLocations[i] \in call.world.present}

FirstExisting == CHOOSE i \in Existing : \A j \in Existing : i <= j

C28_MissingExplicitPath ==
    (LoadReturned /\ call.configPath = pExplicit
        /\ <<"/", "h", "/", "m">> \notin call.world.present) =>
        /\ ~ret.config.loaded
        /\ ret.config.io = <<Io("access", <<"/", "h", "/", "m">>)>>
        /\ ret.config.out =
              <<consoleError("Error: Specified config file not found:",
                             {<<"/", "h", "/", "m">>})>>

C28_Witness ==
    /\ LoadReturned
    /\ call.configPath = pExplicit
    /\ call.world.present = {StandardLocations[1]}
    /\ call.world.doc = "ok"
    /\ ~ret.config.loaded

\* loadConfig found a file to read
Found == IF call.configPath = Undefined THEN Existing # {}
         ELSE <<"/", "h", "/", "m">> \in call.world.present

\* C29: loadConfig returns a configuration only for a file that was read
\* and parsed into an object with profiles; a file that cannot be read or
\* parsed, or whose document is no object or has no profiles, gives null
\* after an error line; a file that cannot be read is not parsed.
C29_LoadsOnlyValidDocuments ==
    LoadReturned =>
        /\ ret.config.loaded =>
              /\ Found
              /\ call.world.doc = "ok"
              /\ PathsOf("readFile") = <<ret.config.filePath>>
              /\ PathsOf("yamlLoad") = <<ret.config.filePath>>
              /\ ret.config.config.profiles = Profiles
        /\ (Found /\ call.world.doc # "ok") =>
              /\ ~ret.config.loaded
              /\ \E i \in DOMAIN ret.config.out :
                    /\ ret.config.out[i].stream = "stderr"
                    /\ ret.config.out[i].text = "Error loading or parsing config file"
        /\ (Found /\ call.world.doc = "unreadable") => PathsOf("yamlLoad") = <<>>

C29_Witness ==
    /\ LoadReturned
    /\ call.configPath = pExplicit
    /\ call.world.doc = "noprofiles"
    /\ <<"/", "h", "/", "m">> \in call.world.present
    /\ ~ret.config.loaded
    /\ PathsOf("yamlLoad") = << <<"/", "h", "/", "m">> >>

\* C30: once resolvePlaceholders is rejected no child is spawned, the
\* environment of the main function holds no resolved value, and no value a
\* unit obtained through a reference is in a line of output, whether the
\* unit settled before or after the rejection.
C30_LateResultsDiscarded ==
    aggregate.state = "rejected" =>
        /\ ~spawnCall.called
        /\ resolvedEnv = ProcessEnv
        /\ \A k \in DOMAIN resolved :
              IsReference(instructions[k]) => ~Logged(resolved[k])

\* the unit of PORT read the file after the unit of A had failed
C30_Witness ==
    /\ pc = "exited"
    /\ verbose
    /\ aggregate.state = "rejected"
    /\ instructions = (kA :> rEnvUnset) @@ (kPORT :> rFile)
    /\ Len(capCalls) = 2
    /\ capCalls[2].cap = "file"
    /\ resolved = (kPORT :> vFileSecret)

\* the slots of the result map other than that of k are as they were
OtherSlotsKept(k) ==
    /\ DOMAIN resolved' \ {k} = DOMAIN resolved \ {k}
    /\ \A j \in DOMAIN resolved \ {k} : resolved'[j] = resolved[j]

\* a unit that settles writes no slot but its own, a settled unit writes
\* nothing more
OwnSlotOnce ==
    \A k \in DOMAIN units \cap DOMAIN units' :
        /\ (units[k] = "pending" /\ units'[k] # "pending") => OtherSlotsKept(k)
        /\ units[k] # "pending" =>
              /\ units'[k] = units[k]
              /\ (k \in DOMAIN resolved) = (k \in DOMAIN resolved')
              /\ k \in DOMAIN resolved => resolved'[k] = resolved[k]

\* the map of a fulfilled resolvePlaceholders holds for each of its keys the
\* value of that key's instruction, whatever the order of the units
SameMapForEveryOrder ==
    aggregate.state = "fulfilled" =>
        \A k \in DOMAIN resolved :
            k \in DOMAIN instructions /\ resolved[k] = Resolution(k).value

Settles == \E k \in DOMAIN units \cap DOMAIN units' : units[k] # units'[k]

\* C31 as stated: the units share no mutable state but the result map (no
\* settling unit changes a module variable), each writes its own slot once,
\* and the fulfilled map does not depend on the order.
C31_NoSharedStateButResultMap ==
    /\ [][OwnSlotOnce]_vars
    /\ [][Settles => UNCHANGED <<keytarModule, keytarImportError>>]_vars
    /\ []SameMapForEveryOrder

\* C31 (amended): besides the result map the units share the two module
\* variables keytarModule and keytarImportError: only a unit that calls
\* getKeytarPassword writes them, every such unit writes the same outcome of
\* the import, and a value once set is never changed; in the result map
\* each unit writes its own slot once, and the fulfilled map does not
\* depend on the order.
C31_UnitsWriteOwnSlotOnce ==
    /\ [][OwnSlotOnce]_vars
    /\ [][\A k \in DOMAIN units \cap DOMAIN units' :
            (units[k] = "pending" /\ units'[k] # "pending") =>
                IF callsKeytar(instructions[k])
                THEN (keytarModule' = "null") # (keytarImportError' = "null")
                ELSE UNCHANGED <<keytarModule, keytarImportError>>]_vars
    /\ [][/\ keytarModule # "null" => keytarModule' = keytarModule
          /\ keytarImportError # "null" => keytarImportError' = keytarImportError]_vars
    /\ []SameMapForEveryOrder

\* two keyring units have settled and both wrote the module variable
C31_Witness ==
    /\ aggregate.state = "fulfilled"
    /\ instructions = (kA :> rKeyring) @@ (kPORT :> rKeyring)
    /\ resolved = (kA :> vKeySecret) @@ (kPORT :> vKeySecret)
    /\ keytarModule = "keytar"
    /\ Len(capCalls) = 2

\* C32: a settled unit of env:NAME has the value NAME has in the inherited
\* environment, or has failed when NAME is not inherited, whatever the other
\* instructions of the set are and whatever has been resolved before it
\* (violated by a NAME that Object.prototype defines: the unit succeeds with
\* a value that is not inherited).
C32_EnvReadsInheritedOnly ==
    \A k \in DOMAIN units :
        (/\ units[k] # "pending"
         /\ HasPrefix(instructions[k], cEnv)
         /\ Len(instructions[k]) > Len(cEnv)) =>
            LET name == SubSeq(instructions[k], Len(cEnv) + 1, Len(instructions[k])) IN
            IF name \in DOMAIN ProcessEnv
            THEN units[k] = "ok" /\ k \in DOMAIN resolved /\ resolved[k] = ProcessEnv[name]
            ELSE units[k] = "failed"

\* C33: once the error handler of the child has run, for a child that could
\* not be spawned or for a running one, stdin is no longer piped to the
\* child and no further chunk is written to the child's stdin.
C33_StdinTornDownOnChildError ==
    /\ [](exitCause = "child-error" => ~stdinPiped /\ pc = "exited")
    /\ [][exitCause' = "child-error" => childStdin' = childStdin]_vars

\* the error came from a running child that had been given input
C33_Witness ==
    /\ exitCause = "child-error"
    /\ childState = "running"
    /\ childStdin = MaxIn
    /\ killLog # <<>>

\* C34: when the supervisor has exited from the exit handler of the child,
\* every chunk the child wrote to its standard output has been written to
\* the standard output of the supervisor (violated: the handler of 'exit'
\* calls process.exit while chunks are still in the pipe).
C34_OutputForwardedBeforeExit ==
    (pc = "exited" /\ exitCause = "child-exit") => Forwarded = childOut

\* the state of the lifecycle: Terminating is Running after a signal was
\* received; Exited is the end in the exit handler of the child, Failed
\* every other end
Phase ==
    IF exitCode # -1 THEN (IF exitCause = "child-exit" THEN "Exited" ELSE "Failed")
    ELSE IF pc = "running" THEN (IF sigLog = <<>> THEN "Running" ELSE "Terminating")
    ELSE IF pc = "spawning" THEN "Spawning"
    ELSE "Start"

PhaseRank(ph) ==
    CASE ph = "Start" -> 0 [] ph = "Spawning" -> 1 [] ph = "Running" -> 2
      [] ph = "Terminating" -> 3 [] OTHER -> 4

\* the lifecycle moves forward only
Forward == PhaseRank(Phase') >= PhaseRank(Phase)

\* Terminating is entered from Running by the handler of a signal
TerminatingBySignal ==
    (Phase # "Terminating" /\ Phase' = "Terminating") =>
        Phase = "Running" /\ Len(sigLog') = Len(sigLog) + 1

\* nothing is spawned and nothing is relayed after the end
TerminalIsFinal ==
    Phase \in {"Exited", "Failed"} =>
        /\ Phase' = Phase
        /\ UNCHANGED <<spawnCall, killLog, sigLog, exitCode>>

\* C35 as stated: the lifecycle moves forward along Spawning, Running,
\* Terminating, Exited; Running and Terminating are left only by the exit
\* handler of a child that has ended.
C35_LifecycleEndsOnChildExit ==
    /\ [][Forward /\ TerminatingBySignal /\ TerminalIsFinal]_vars
    /\ [][(Phase \in {"Running", "Terminating"} /\ Phase' \notin {"Running", "Terminating"}) =>
            Phase' = "Exited" /\ childState = "dead"]_vars

\* C35 (amended): the lifecycle moves forward only, Terminating is entered
\* from Running by a signal handler, nothing is spawned or relayed after the
\* end; Running and Terminating are left by the exit handler of a child that
\* has ended, or by the error handler of the child with exit code 1 when
\* child.kill failed, the child still running.
C35_LifecycleForward ==
    /\ [][Forward /\ TerminatingBySignal /\ TerminalIsFinal]_vars
    /\ [][(Phase \in {"Running", "Terminating"} /\ Phase' \notin {"Running", "Terminating"}) =>
            \/ Phase' = "Exited" /\ childState = "dead"
            \/ /\ Phase' = "Failed"
               /\ exitCause' = "child-error"
               /\ exitCode' = 1
               /\ childState = "running"
               /\ Len(killLog') = Len(killLog) + 1
               /\ killLog'[Len(killLog')].result = "EPERM"]_vars

\* the supervisor ended in the exit handler after two signals
C35_Witness ==
    /\ Phase = "Exited"
    /\ Len(sigLog) = 2
    /\ childStatus.signal = "SIGKILL"

DeliveredKill ==
    \E i \in DOMAIN killLog :
        killLog[i].sig = "SIGKILL" /\ killLog[i].result = "delivered"

\* C36: once a signal has been received with the child running the
\* supervisor eventually exits, also when the child ignores the relayed
\* signal and never ends by itself; a child the escalation has killed is
\* seen to exit by the exit handler, which exits with code 1.
C36_SignalLeadsToExit ==
    /\ (sigLog # <<>>) ~> (pc = "exited")
    /\ [](DeliveredKill => childStatus = KilledBy("SIGKILL"))
    /\ []((DeliveredKill /\ pc = "exited") => exitCause = "child-exit" /\ exitCode = 1)

\* the child ignored SIGTERM and was killed a second after it
C36_Witness ==
    /\ pc = "exited"
    /\ exitCode = 1
    /\ Len(sigLog) = 1
    /\ childSignals = <<"SIGTERM", "SIGKILL">>
    /\ now >= sigLog[1].at + GraceMs

Received == Len(sigLog') = Len(sigLog) + 1

\* C37: the receipt of a signal ends the supervisor only when the relay
\* makes the child emit its error event; a supervisor that has received a
\* signal and exited did so in the exit handler, with the code of the child
\* or with 1 for a child that a signal killed, or in the error handler
\* with 1.
C37_SignalAloneNeverExits ==
    /\ [][(Received /\ pc' = "exited") =>
            /\ exitCause' = "child-error"
            /\ killLog'[Len(killLog')].result = "EPERM"]_vars
    /\ []((pc = "exited" /\ sigLog # <<>>) =>
            \/ /\ exitCause = "child-exit"
               /\ childState = "dead"
               /\ exitCode = IF childStatus.signal # "null" THEN 1 ELSE childStatus.code
            \/ exitCause = "child-error" /\ exitCode = 1)

\* the child handled the relayed signal and exited with its own code
C37_Witness ==
    /\ pc = "exited"
    /\ Len(sigLog) = 1
    /\ childSignals = <<"SIGINT">>
    /\ childStatus = ExitedWith(7)
    /\ exitCode = 7

ChildExitedZero ==
    /\ spawnCall.called
    /\ childState = "dead"
    /\ childStatus = ExitedWith(0)

\* C38 as stated: the supervisor exits with code 0 only when a child was
\* spawned and ended by itself with code 0.
C38_ZeroOnlyFromChild ==
    (pc = "exited" /\ exitCode = 0) => ChildExitedZero

\* C38 (amended): the supervisor exits with code 0 only when a child was
\* spawned and ended by itself with code 0, or when the command line asked
\* for the help or the version, which commander prints before it exits
\* with 0 and before the main function runs.
C38_ZeroOnlyFromChildOrHelp ==
    (pc = "exited" /\ exitCode = 0) =>
        \/ ChildExitedZero /\ exitCause = "child-exit" /\ cli = "run"
        \/ /\ cli \in {"help", "version"}
           /\ exitCause = "commander"
           /\ ~spawnCall.called
           /\ stderr = <<>>

C38_Witness ==
    /\ pc = "exited"
    /\ exitCode = 0
    /\ cli = "version"
    /\ Len(stdout) = 1

NoTargetEnv == targetEnvJson.kind \in {"undefined", "empty"}

ConfigLoaded ==
    \E i \in DOMAIN stdout : stdout[i].text = "Loaded configuration from:"

\* the four cases in which the selection has to end the run
MustAbort ==
    \/ ConfigLoaded /\ specifiedProfile = Undefined
    \/ ConfigLoaded /\ specifiedProfile \notin {nDev, nBroken, nBare}
    \/ ~ConfigLoaded /\ specifiedConfigPath # Undefined
    \/ ~ConfigLoaded /\ specifiedProfile # Undefined

\* C39: without --target-env, a run with a loaded file and no profile, with
\* a profile the loaded file does not have, with a -c file that did not
\* load, or with a profile and no file, has exited with code 1 with nothing
\* resolved and nothing spawned; every other run goes on to the resolution
\* or to the spawn (violated by -p toString: the lookup finds the function
\* of Object.prototype and the run goes on).
C39_SelectionErrorsExitOne ==
    (cli = "run" /\ NoTargetEnv /\ pc \notin {"parse", "start"}) =>
        IF MustAbort
        THEN /\ pc = "exited"
             /\ exitCode = 1
             /\ exitCause = "config"
             /\ ~spawnCall.called
             /\ units = EmptyMap
             /\ capCalls = <<>>
        ELSE /\ exitCause # "config"
             /\ spawnCall.called \/ pc = "resolving" \/ aggregate.state # "none"

====
